---- MODULE Spec2Model ----
(***************************************************************************)
(* Backing stores of the unification table (src/unify/backing_vec.rs).     *)
(*                                                                         *)
(* Two stores are driven side by side by one caller issuing the same       *)
(* sequence of UnificationStore operations to each:                        *)
(*   inplace    - InPlace<K>    { values: sv::SnapshotVec<Delegate<K>> }   *)
(*   persistent - Persistent<K> { values: DVec<VarValue<K>> }              *)
(* Rust indices are zero based; slot i of a store is element i + 1 of the  *)
(* sequence that models its vector.                                        *)
(***************************************************************************)
EXTENDS Integers, Sequences, FiniteSets

\* ---------------------------------------------------------------- bounds
\* Largest table length the caller grows a store to.
MaxLen == 2
\* Largest number of snapshots the caller holds unresolved at one time.
MaxSnaps == 2
\* The arguments the caller passes to reserve.
ReserveArgs == {0, 1, 8}

\* VarValue<K> is opaque to the stores: two distinguishable payloads.
Val == {0, 1}
\* The closures handed to update: every FnOnce(&mut VarValue) over Val.
Ops == [Val -> Val]
\* The closures handed to reset_unifications, FnMut(u32) -> VarValue: the
\* two constant generators and the two that alternate with the index.
ValueFns ==
    {[i \in 0..(MaxLen - 1) |-> c] : c \in Val}
        \cup {[i \in 0..(MaxLen - 1) |-> (i + c) % 2] : c \in Val}

VARIABLES
    inplace,        \* the InPlace store: [values, undo_log]
    persistent,     \* the Persistent store: [values]
    ipSnaps,        \* sv::Snapshot tokens the caller holds, oldest first
    psSnaps,        \* Persistent snapshots the caller holds, oldest first
    driven,         \* the stores the caller was built with and operates on
    aborted,        \* the stores whose run has panicked
    opened,         \* history: per held snapshot, each store's table as it was
                    \* when the snapshot was opened, and innerKept: a snapshot
                    \* opened inside it after a push was committed after a
                    \* further push
    last,           \* history: the operation performed last, with the arguments
                    \* and results the properties below refer to
    kept            \* history, recorded only by SpecNested: the slot that
                    \* survived the latest nested push / rollback / commit
                    \* sequence, with the number of held snapshots that are
                    \* older than that sequence

vars == <<inplace, persistent, ipSnaps, psSnaps, driven, aborted, opened, last,
          kept>>

\* ------------------------------------------------------------ helpers
\* `i as u32`: the low 32 bits of i, as two 16-bit halves.
AsU32(i) == (i % 65536) + 65536 * ((i \div 65536) % 65536)

\* The first n elements of a vector (Vec::truncate).
Truncate(s, n) == SubSeq(s, 1, n)

\* A sequence without its k-th element.
RemoveAt(s, k) == SubSeq(s, 1, k - 1) \o SubSeq(s, k + 1, Len(s))

\* start..=end
RangeInclusive(start, end) == [start |-> start, end |-> end]
RangeContains(r, x) == r.start <= x /\ x <= r.end
RangeElems(r) == r.start .. r.end

\* -------------------------------------------- snapshot_vec::SnapshotVec
\* The in-place vector with its checkpoint log: one log entry per open
\* checkpoint, holding the number of slots that existed when it opened.
SnapshotVec_new == [values |-> <<>>, undo_log |-> <<>>]

SnapshotVec_len(sv) == Len(sv.values)

SnapshotVec_index(sv, index) == sv.values[index + 1]

\* Indexing the underlying Vec past its end panics.
SnapshotVec_index_panics(sv, index) == index >= Len(sv.values)

SnapshotVec_push(sv, value) == [sv EXCEPT !.values = Append(@, value)]

\* Capacity is not observable through the store's interface.
SnapshotVec_reserve(sv, additional) == sv

\* Mutation of a slot records nothing in the log.
SnapshotVec_update(sv, index, op) ==
    [sv EXCEPT !.values[index + 1] = op[@]]

SnapshotVec_set_all(sv, new_elems) ==
    [sv EXCEPT !.values = [p \in 1..Len(sv.values) |-> new_elems[p - 1]]]

\* The token is a length marker; position places it in the checkpoint log.
SnapshotVec_start_snapshot(sv) ==
    [store    |-> [sv EXCEPT !.undo_log = Append(@, Len(sv.values))],
     snapshot |-> [length |-> Len(sv.values), position |-> Len(sv.undo_log) + 1]]

\* The token must be the most recently opened unresolved checkpoint.
SnapshotVec_assert_open_snapshot(sv, snapshot) ==
    /\ snapshot.position = Len(sv.undo_log)
    /\ sv.undo_log[snapshot.position] = snapshot.length

\* ------------------------------------------------------------- Delegate
Unit == "()"

\* fn reverse(_: &mut Vec<VarValue<K>>, _: ()) {}
Delegate_reverse(values, undo) == values

\* Truncates to the captured length; the delegate hook touches no slot.
SnapshotVec_rollback_to(sv, snapshot) ==
    [values   |-> Delegate_reverse(Truncate(sv.values, snapshot.length), Unit),
     undo_log |-> Truncate(sv.undo_log, snapshot.position - 1)]

\* Forgets the checkpoint marker.
SnapshotVec_commit(sv, snapshot) ==
    [sv EXCEPT !.undo_log = Truncate(@, snapshot.position - 1)]

\* ------------------------------------------------- impl Measurable
\* impl Measurable for sv::Snapshot
Snapshot_len(snapshot) == snapshot.length

InPlace_len(self) == SnapshotVec_len(self.values)

Persistent_len(self) == Len(self.values)

\* ------------------------------------- UnificationStore (default method)
\* Variant: the half-open range snapshot.len()..self.len().
values_since_snapshot_Exclusive(snapshot_len, self_len) ==
    RangeInclusive(snapshot_len, self_len - 1)

\* snapshot.len()..=self.len()
values_since_snapshot(snapshot_len, self_len) ==
    RangeInclusive(snapshot_len, self_len)

\* ------------------------------------------------------------- InPlace
InPlace_default == [values |-> SnapshotVec_new]

InPlace_index(self, index) == SnapshotVec_index(self.values, index)

\* &self.values[index]
InPlace_index_panics(self, index) == SnapshotVec_index_panics(self.values, index)

InPlace_start_snapshot(self) ==
    LET r == SnapshotVec_start_snapshot(self.values)
    IN  [store |-> [values |-> r.store], snapshot |-> r.snapshot]

InPlace_rollback_to(self, snapshot) ==
    [values |-> SnapshotVec_rollback_to(self.values, snapshot)]

\* Variant: the wrapper does not forward to the vector's commit.
InPlace_commit_Skipped(self, snapshot) == self

\* Variant: the wrapper forwards to rollback_to instead of commit.
InPlace_commit_AsRollback(self, snapshot) ==
    [values |-> SnapshotVec_rollback_to(self.values, snapshot)]

InPlace_commit(self, snapshot) ==
    [values |-> SnapshotVec_commit(self.values, snapshot)]

\* self.values.set_all(|i| value(i as u32))
InPlace_reset_unifications(self, value) ==
    [values |-> SnapshotVec_set_all(self.values,
                    [i \in 0..(SnapshotVec_len(self.values) - 1) |-> value[AsU32(i)]])]

\* Variant: the value is dropped instead of appended.
InPlace_push_Dropped(self, value) == self

InPlace_push(self, value) ==
    [values |-> SnapshotVec_push(self.values, value)]

InPlace_reserve(self, num_new_values) ==
    [values |-> SnapshotVec_reserve(self.values, num_new_values)]

\* self.values.update(index, op) indexes the vector before op runs.
InPlace_update_panics(self, index) == SnapshotVec_index_panics(self.values, index)

\* Variant: op is applied to a copy of the slot and the result is dropped.
InPlace_update_Lost(self, index, op) == self

InPlace_update(self, index, op) ==
    [values |-> SnapshotVec_update(self.values, index, op)]

\* ---------------------------------------------------------- Persistent
Persistent_default == [values |-> <<>>]

Persistent_index(self, index) == self.values[index + 1]

\* &self.values[index]: DVec's Index panics past the end.
Persistent_index_panics(self, index) == index >= Len(self.values)

\* Variant: the live store is moved into the snapshot and left empty.
Persistent_start_snapshot_Taking(self) ==
    [store |-> [values |-> <<>>], snapshot |-> self]

\* self.clone(): the live store is left as it is
Persistent_start_snapshot(self) == [store |-> self, snapshot |-> self]

\* Variant: the snapshot is dropped without being assigned.
Persistent_rollback_to_Kept(self, snapshot) == self

\* Variant: only the length is restored, as in the in-place store.
Persistent_rollback_to_Truncating(self, snapshot) ==
    [values |-> Truncate(self.values, Len(snapshot.values))]

\* Variant: the store is reset instead of assigned the snapshot.
Persistent_rollback_to_Cleared(self, snapshot) == [values |-> <<>>]

\* *self = snapshot
Persistent_rollback_to(self, snapshot) == snapshot

\* Variant: commit drops the table together with the snapshot.
Persistent_commit_Cleared(self, snapshot) == [values |-> <<>>]

\* Variant: commit assigns the snapshot, as rollback_to does.
Persistent_commit_Restoring(self, snapshot) == snapshot

Persistent_commit(self, snapshot) == self

\* for i in 0 .. self.values.len() { self.values[i] = value(i as u32); }
RECURSIVE Persistent_reset_loop(_, _, _)
Persistent_reset_loop(values, value, i) ==
    IF i >= Len(values) THEN values
    ELSE Persistent_reset_loop([values EXCEPT ![i + 1] = value[AsU32(i)]],
                               value, i + 1)

\* Variant: the loop starts at 1 and leaves slot 0 as it was.
Persistent_reset_unifications_FromOne(self, value) ==
    [values |-> Persistent_reset_loop(self.values, value, 1)]

Persistent_reset_unifications(self, value) ==
    [values |-> Persistent_reset_loop(self.values, value, 0)]

\* Variant: the value is inserted at the front.
Persistent_push_Front(self, value) == [values |-> <<value>> \o self.values]

Persistent_push(self, value) == [values |-> Append(self.values, value)]

\* Variant: reserve grows the table by one slot when asked for room.
Persistent_reserve_Growing(self, num_new_values) ==
    IF num_new_values > 0 THEN [values |-> Append(self.values, 0)] ELSE self

Persistent_reserve(self, num_new_values) == self

\* Variant: a missing slot is skipped instead of panicking.
Persistent_update_panics_Never(self, index) == FALSE

\* &mut self.values[index]: DVec's IndexMut panics past the end, before op runs.
Persistent_update_panics(self, index) == index >= Len(self.values)

\* Variant: the index is ignored and the first slot is written.
Persistent_update_FirstSlot(self, index, op) ==
    [values |-> [self.values EXCEPT ![1] = op[@]]]

\* let p = &mut self.values[index]; op(p);
Persistent_update(self, index, op) ==
    [values |-> [self.values EXCEPT ![index + 1] = op[@]]]

\* ------------------------------------------------------------ the caller
Stores == {"InPlace", "Persistent"}

\* The slots of a store, as a sequence.
Table(kind) ==
    IF kind = "InPlace" THEN inplace.values.values ELSE persistent.values

\* len() and index(i) of a store.
Length(kind) ==
    IF kind = "InPlace" THEN InPlace_len(inplace) ELSE Persistent_len(persistent)

Slot(kind, i) ==
    IF kind = "InPlace" THEN InPlace_index(inplace, i)
    ELSE Persistent_index(persistent, i)

\* What a later history record keeps of the operation before it.
Summary(l) ==
    IF l.op \in {"update", "start_snapshot"} THEN l ELSE [op |-> l.op]

\* The stores still running.
Running == driven \ aborted

\* A store the caller does not operate on, or whose run has panicked,
\* performs no operation; once no store is running the caller has halted
\* and no operation is issued (every action requires Running # {}).
Live(kind, store, next) == IF kind \in Running THEN next ELSE store

\* The value of kept in a run that does not record surviving slots.
Untracked == {[tracked |-> FALSE]}

TypeOK ==
    /\ Len(Table("InPlace")) <= MaxLen
    /\ Len(Table("Persistent")) <= MaxLen
    /\ Len(ipSnaps) <= MaxSnaps
    /\ Len(psSnaps) = Len(ipSnaps)
    /\ Len(opened) = Len(ipSnaps)
    /\ driven \subseteq Stores
    /\ aborted \subseteq driven
    /\ \/ kept = Untracked
       \/ kept \subseteq [slot : 0..(MaxLen - 1), older : 0..MaxSnaps]

\* Default::default() for both stores; the caller holds no snapshot.
InitStores ==
    /\ inplace = InPlace_default
    /\ persistent = Persistent_default
    /\ ipSnaps = <<>>
    /\ psSnaps = <<>>
    /\ aborted = {}
    /\ opened = <<>>
    /\ last = [op |-> "default"]

\* The backing is selected once, when the table is constructed.
Init ==
    /\ InitStores
    /\ driven \in {{"InPlace"}, {"Persistent"}}
    /\ kept = Untracked

Push(value) ==
    /\ Running # {}
    /\ \A kind \in Stores : Len(Table(kind)) < MaxLen
    /\ inplace' = Live("InPlace", inplace, InPlace_push(inplace, value))
    /\ persistent' = Live("Persistent", persistent, Persistent_push(persistent, value))
    /\ last' = [op |-> "push", value |-> value,
                before |-> [kind \in Stores |-> Table(kind)]]
    /\ UNCHANGED <<ipSnaps, psSnaps, driven, aborted, opened, kept>>

\* The caller keeps the precondition index < len().
Update(index, op) ==
    /\ Running # {}
    /\ \A kind \in driven : index < Len(Table(kind))
    /\ inplace' = Live("InPlace", inplace, InPlace_update(inplace, index, op))
    /\ persistent' = Live("Persistent", persistent, Persistent_update(persistent, index, op))
    /\ last' = [op |-> "update", index |-> index,
                result |-> [kind \in driven |-> op[Slot(kind, index)]]]
    /\ UNCHANGED <<ipSnaps, psSnaps, driven, aborted, opened, kept>>

ResetUnifications(value) ==
    /\ Running # {}
    /\ inplace' = Live("InPlace", inplace, InPlace_reset_unifications(inplace, value))
    /\ persistent' = Live("Persistent", persistent,
                          Persistent_reset_unifications(persistent, value))
    /\ last' = [op |-> "reset_unifications",
                lenBefore |-> [kind \in Stores |-> Length(kind)],
                expect |-> [kind \in Stores |->
                               [i \in 0..(Length(kind) - 1) |-> value[i]]]]
    /\ UNCHANGED <<ipSnaps, psSnaps, driven, aborted, opened, kept>>

Reserve(num_new_values) ==
    /\ Running # {}
    /\ inplace' = Live("InPlace", inplace, InPlace_reserve(inplace, num_new_values))
    /\ persistent' = Live("Persistent", persistent,
                          Persistent_reserve(persistent, num_new_values))
    /\ last' = [op |-> "reserve",
                before |-> [InPlace |-> inplace, Persistent |-> persistent],
                snapshots |-> [InPlace |-> ipSnaps, Persistent |-> psSnaps]]
    /\ UNCHANGED <<ipSnaps, psSnaps, driven, aborted, opened, kept>>

StartSnapshot ==
    /\ Running # {}
    /\ Len(psSnaps) < MaxSnaps
    /\ LET ip == InPlace_start_snapshot(inplace)
           ps == Persistent_start_snapshot(persistent)
       IN  /\ inplace' = Live("InPlace", inplace, ip.store)
           /\ persistent' = Live("Persistent", persistent, ps.store)
           /\ ipSnaps' = Append(ipSnaps, ip.snapshot)
           /\ psSnaps' = Append(psSnaps, ps.snapshot)
    /\ opened' = Append(opened, [InPlace |-> Table("InPlace"),
                                 Persistent |-> Table("Persistent"),
                                 innerKept |-> FALSE])
    /\ last' = [op |-> "start_snapshot",
                before |-> [kind \in Stores |-> Table(kind)],
                pushed |-> last.op = "push",
                lenBeforePush |-> [kind \in Stores |->
                                      IF last.op = "push" THEN Len(last.before[kind])
                                      ELSE Length(kind)]]
    /\ UNCHANGED <<driven, aborted, kept>>

\* The caller borrows the k-th snapshot it holds; nothing is consumed.
ValuesSinceSnapshot(k) ==
    /\ Running # {}
    /\ k \in 1..Len(psSnaps)
    /\ last' = [op |-> "values_since_snapshot",
                lenAtOpen |-> [kind \in Stores |-> Len(opened[k][kind])],
                lenNow |-> [kind \in Stores |-> Length(kind)],
                InPlace |-> values_since_snapshot(Snapshot_len(ipSnaps[k]),
                                                  InPlace_len(inplace)),
                Persistent |-> values_since_snapshot(Persistent_len(psSnaps[k]),
                                                     Persistent_len(persistent))]
    /\ UNCHANGED <<inplace, persistent, ipSnaps, psSnaps, driven, aborted, opened,
                   kept>>

\* The caller hands the k-th snapshot it holds to rollback_to or commit.
\* SnapshotVec panics on a token that is not its innermost open checkpoint;
\* Persistent checks nothing.
\* The held snapshot k (S1) is the innermost; since it was opened the table
\* grew by one slot (A), an inner snapshot (S2) was opened, one more slot (B)
\* was pushed, and the operation performed last rolled S2 back.
NestedRollbackDone(k, kind) ==
    /\ k = Len(opened)
    /\ last.op = "rollback_to"
    /\ last.inOrder
    /\ \E A \in Val : last.at[kind] = Append(opened[k][kind], A)
    /\ \E B \in Val : last.before[kind] = Append(last.at[kind], B)

\* The record of the surviving slot after the held snapshot k is resolved: a
\* commit that completes the nested sequence starts a record; an older
\* snapshot leaving the stack is counted off, and a rollback to one ends the
\* record.
KeptAfter(k, op) ==
    IF kept = Untracked THEN kept
    ELSE IF op = "commit" /\ \A kind \in driven : NestedRollbackDone(k, kind)
    THEN {[slot |-> Len(opened[k][kind]), older |-> k - 1] : kind \in driven}
    ELSE {IF k <= r.older THEN [r EXCEPT !.older = @ - 1] ELSE r :
             r \in {q \in kept : ~(op = "rollback_to" /\ k <= q.older)}}

Resolve(k, op) ==
    LET ipPanics == /\ "InPlace" \in Running
                    /\ ~SnapshotVec_assert_open_snapshot(inplace.values, ipSnaps[k])
        innermost == k = Len(psSnaps)
    IN  /\ inplace' =
              IF ipPanics THEN inplace
              ELSE IF op = "rollback_to"
                   THEN Live("InPlace", inplace, InPlace_rollback_to(inplace, ipSnaps[k]))
                   ELSE Live("InPlace", inplace, InPlace_commit(inplace, ipSnaps[k]))
        /\ aborted' = IF ipPanics THEN aborted \cup {"InPlace"} ELSE aborted
        /\ persistent' =
              IF op = "rollback_to"
              THEN Live("Persistent", persistent,
                        Persistent_rollback_to(persistent, psSnaps[k]))
              ELSE Live("Persistent", persistent,
                        Persistent_commit(persistent, psSnaps[k]))
        /\ ipSnaps' = RemoveAt(ipSnaps, k)
        /\ psSnaps' = RemoveAt(psSnaps, k)
        /\ opened' =
              IF op = "commit" /\ innermost /\ k > 1
                 /\ \E kind \in driven :
                       /\ Len(opened[k - 1][kind]) < Len(opened[k][kind])
                       /\ Len(opened[k][kind]) < Len(Table(kind))
              THEN [RemoveAt(opened, k) EXCEPT ![k - 1].innerKept = TRUE]
              ELSE RemoveAt(opened, k)
        /\ last' = [op |-> op,
                    inOrder |-> innermost,
                    at |-> opened[k],
                    before |-> [kind \in Stores |-> Table(kind)],
                    after |-> Summary(last)]
        /\ kept' = KeptAfter(k, op)
        /\ UNCHANGED driven

\* Last opened, first resolved.
RollbackTo ==
    /\ Running # {}
    /\ Len(psSnaps) > 0
    /\ Resolve(Len(psSnaps), "rollback_to")

Commit ==
    /\ Running # {}
    /\ Len(psSnaps) > 0
    /\ Resolve(Len(psSnaps), "commit")

\* An older snapshot resolved while a more recent one is still unresolved.
RollbackToOutOfOrder ==
    /\ Running # {}
    /\ \E k \in 1..(Len(psSnaps) - 1) : Resolve(k, "rollback_to")

CommitOutOfOrder ==
    /\ Running # {}
    /\ \E k \in 1..(Len(psSnaps) - 1) : Resolve(k, "commit")

\* The stores in which an indexed read / an update of slot index panics.
IndexPanics(index) ==
    {kind \in Running :
        IF kind = "InPlace" THEN InPlace_index_panics(inplace, index)
        ELSE Persistent_index_panics(persistent, index)}

UpdatePanics(index) ==
    {kind \in Running :
        IF kind = "InPlace" THEN InPlace_update_panics(inplace, index)
        ELSE Persistent_update_panics(persistent, index)}

\* index(i) for any i: a store that does not panic returns the slot.
IndexAt(index) ==
    /\ Running # {}
    /\ aborted' = aborted \cup IndexPanics(index)
    /\ last' = [op |-> "index", index |-> index, checked |-> TRUE,
                before |-> [kind \in Stores |-> Table(kind)],
                value |-> [kind \in Running \ IndexPanics(index) |->
                              Slot(kind, index)]]
    /\ UNCHANGED <<inplace, persistent, ipSnaps, psSnaps, driven, opened, kept>>

\* update(i, op) for an i that is out of bounds in some running store: that
\* store panics; a store in which i is in bounds is updated.
UpdateOutOfBounds(index, op) ==
    /\ \E kind \in Running : index >= Length(kind)
    /\ aborted' = aborted \cup UpdatePanics(index)
    /\ inplace' = IF "InPlace" \in Running \ UpdatePanics(index)
                  THEN InPlace_update(inplace, index, op) ELSE inplace
    /\ persistent' = IF "Persistent" \in Running \ UpdatePanics(index)
                     THEN Persistent_update(persistent, index, op) ELSE persistent
    /\ last' = [op |-> "update", index |-> index, checked |-> TRUE,
                before |-> [kind \in Stores |-> Table(kind)]]
    /\ UNCHANGED <<ipSnaps, psSnaps, driven, opened, kept>>

\* The caller respects the contract: LIFO snapshots, indices in bounds.
Next ==
    \/ \E value \in Val : Push(value)
    \/ \E index \in 0..(MaxLen - 1), op \in Ops : Update(index, op)
    \/ \E value \in ValueFns : ResetUnifications(value)
    \/ \E n \in ReserveArgs : Reserve(n)
    \/ StartSnapshot
    \/ \E k \in 1..MaxSnaps : ValuesSinceSnapshot(k)
    \/ RollbackTo
    \/ Commit

Spec == Init /\ [][Next]_vars

\* The caller may also resolve snapshots out of nesting order.
NextMisuse ==
    \/ Next
    \/ RollbackToOutOfOrder
    \/ CommitOutOfOrder

SpecMisuse == Init /\ [][NextMisuse]_vars

\* The caller may also index and update any slot number up to MaxLen.
NextOutOfBounds ==
    \/ Next
    \/ \E index \in 0..MaxLen : IndexAt(index)
    \/ \E index \in 0..MaxLen, op \in Ops : UpdateOutOfBounds(index, op)

SpecOutOfBounds == Init /\ [][NextOutOfBounds]_vars

\* ---------------------------------------------------------- properties
\* The last operation was a rollback_to / commit of the innermost snapshot.
RolledBack == last.op = "rollback_to" /\ last.inOrder
Committed == last.op = "commit" /\ last.inOrder

\* C1: after rollback_to(S) every store has the length it had when S was
\* taken, whatever was pushed and whichever inner snapshots were opened and
\* resolved in between; no slot appended since S is addressable.
C1_RollbackRestoresLength ==
    RolledBack =>
        \A kind \in driven :
            /\ kind \notin aborted
            /\ Length(kind) = Len(last.at[kind])

\* A rollback that discarded slots pushed since the snapshot (Persistent).
C1_Witness ==
    /\ RolledBack
    /\ driven = {"Persistent"}
    /\ Len(last.before["Persistent"]) > Len(last.at["Persistent"])
    /\ Length("Persistent") = Len(last.at["Persistent"])

\* C2: in the in-place store, rollback_to(S) leaves every slot that existed
\* when S was taken with the value it held just before the rollback; in
\* particular a slot updated right before the rollback reads the updated
\* value afterwards.
C2_InPlaceKeepsUpdates ==
    (RolledBack /\ "InPlace" \in driven) =>
        /\ "InPlace" \notin aborted
        /\ \A i \in 0..(Len(last.at["InPlace"]) - 1) :
              /\ i < Length("InPlace")
              /\ Slot("InPlace", i) = last.before["InPlace"][i + 1]
        /\ (last.after.op = "update" /\ last.after.index < Len(last.at["InPlace"]))
              => Slot("InPlace", last.after.index) = last.after.result["InPlace"]

\* push V0; snapshot; update slot 0 to V1 # V0; rollback: slot 0 reads V1.
C2_Witness ==
    /\ RolledBack
    /\ driven = {"InPlace"}
    /\ last.after.op = "update"
    /\ last.after.index = 0
    /\ Len(last.at["InPlace"]) = 1
    /\ last.after.result["InPlace"] # last.at["InPlace"][1]
    /\ Slot("InPlace", 0) = last.after.result["InPlace"]

\* C3: in the persistent store, rollback_to(S) restores the whole table to
\* the state it had when S was taken: same length, same value in every slot.
C3_PersistentRestoresAll ==
    (RolledBack /\ "Persistent" \in driven) =>
        /\ "Persistent" \notin aborted
        /\ Length("Persistent") = Len(last.at["Persistent"])
        /\ \A i \in 0..(Len(last.at["Persistent"]) - 1) :
              Slot("Persistent", i) = last.at["Persistent"][i + 1]

\* push V0; snapshot; update slot 0 to V1 # V0; rollback: slot 0 reads V0.
C3_Witness ==
    /\ RolledBack
    /\ driven = {"Persistent"}
    /\ last.after.op = "update"
    /\ last.after.index = 0
    /\ Len(last.at["Persistent"]) = 1
    /\ last.after.result["Persistent"] # last.at["Persistent"][1]
    /\ last.before["Persistent"][1] = last.after.result["Persistent"]
    /\ Slot("Persistent", 0) = last.at["Persistent"][1]

\* C4: a commit of an inner snapshot protects nothing from the outer
\* rollback: S1 at length L, push, S2, push, commit(S2), rollback_to(S1)
\* returns the length to L.
C4_InnerCommitNotProtected ==
    (RolledBack /\ last.at.innerKept) =>
        \A kind \in driven :
            /\ kind \notin aborted
            /\ Length(kind) = Len(last.at[kind])

\* The rollback to S1 removed both the slot pushed before S2 was opened and
\* the one pushed inside the committed S2 (InPlace).
C4_Witness ==
    /\ RolledBack
    /\ last.at.innerKept
    /\ driven = {"InPlace"}
    /\ Len(last.before["InPlace"]) = Len(last.at["InPlace"]) + 2
    /\ Length("InPlace") = Len(last.at["InPlace"])

\* C5: values_since_snapshot(S) covers exactly the indices introduced since
\* S, from the length L at S up to N - 1 for the current length N; it does
\* not contain N.
C5_ExactRange ==
    last.op = "values_since_snapshot" =>
        \A kind \in driven :
            /\ RangeElems(last[kind]) =
                  last.lenAtOpen[kind] .. (last.lenNow[kind] - 1)
            /\ ~RangeContains(last[kind], last.lenNow[kind])

\* C6: reset_unifications(value_fn) leaves the length as it was and every
\* slot i reads value_fn(i).
C6_ResetRewritesAll ==
    last.op = "reset_unifications" =>
        \A kind \in driven :
            /\ kind \notin aborted
            /\ Length(kind) = last.lenBefore[kind]
            /\ \A i \in 0..(last.lenBefore[kind] - 1) :
                  Slot(kind, i) = last.expect[kind][i]

\* A reset of two slots with a generator that depends on the index
\* (Persistent).
C6_Witness ==
    /\ last.op = "reset_unifications"
    /\ driven = {"Persistent"}
    /\ last.lenBefore["Persistent"] = 2
    /\ last.expect["Persistent"][0] # last.expect["Persistent"][1]
    /\ Slot("Persistent", 0) = last.expect["Persistent"][0]
    /\ Slot("Persistent", 1) = last.expect["Persistent"][1]

\* C7: commit changes no table data: length and slots are those of just
\* before the commit, and a commit right after start_snapshot leaves the
\* table as it was before the snapshot was opened.
C7_CommitKeepsData ==
    Committed =>
        \A kind \in driven :
            /\ kind \notin aborted
            /\ Table(kind) = last.before[kind]
            /\ last.after.op = "start_snapshot" => Table(kind) = last.at[kind]

\* A commit that kept a slot pushed inside the snapshot (Persistent).
C7_Witness ==
    /\ Committed
    /\ driven = {"Persistent"}
    /\ Len(last.before["Persistent"]) > Len(last.at["Persistent"])
    /\ Table("Persistent") = last.before["Persistent"]

\* C8: push(v) on a table of length L makes the length L + 1, slot L reads
\* v, and every slot below L keeps its value.
C8_PushAppends ==
    last.op = "push" =>
        \A kind \in driven :
            /\ kind \notin aborted
            /\ Length(kind) = Len(last.before[kind]) + 1
            /\ Slot(kind, Len(last.before[kind])) = last.value
            /\ \A i \in 0..(Len(last.before[kind]) - 1) :
                  Slot(kind, i) = last.before[kind][i + 1]

\* A push onto a non-empty table whose slot 0 differs from the pushed value
\* (InPlace).
C8_Witness ==
    /\ last.op = "push"
    /\ driven = {"InPlace"}
    /\ Len(last.before["InPlace"]) = 1
    /\ Slot("InPlace", 1) = last.value
    /\ Slot("InPlace", 0) # last.value

\* C9: under the LIFO discipline len() never decreases except in a
\* rollback_to step, and a rollback_to step sets it to the length at the
\* matching start_snapshot, which is never larger than the current one.
C9_LengthMonotone ==
    [][\A kind \in driven :
          /\ last'.op # "rollback_to" => Length(kind)' >= Length(kind)
          /\ last'.op = "rollback_to" =>
                /\ Length(kind)' = Len(opened[Len(opened)][kind])
                /\ Length(kind)' <= Length(kind)]_vars

\* A rollback that decreased the length (InPlace).
C9_Witness ==
    /\ RolledBack
    /\ driven = {"InPlace"}
    /\ Length("InPlace") < Len(last.before["InPlace"])

\* C10: resolving an older snapshot while a more recent one is unresolved
\* aborts the run in both stores.
C10_OutOfOrderAborts ==
    (last.op \in {"rollback_to", "commit"} /\ ~last.inOrder) =>
        driven \subseteq aborted

\* C11: index(i) and update(i, f) with i >= len() abort the run without
\* returning a value or changing a slot; with i < len() they succeed.
C11_OutOfBoundsAborts ==
    (last.op \in {"index", "update"}) =>
        \A kind \in driven :
            IF "checked" \in DOMAIN last /\ last.index >= Len(last.before[kind])
            THEN /\ kind \in aborted
                 /\ Table(kind) = last.before[kind]
                 /\ last.op = "index" => kind \notin DOMAIN last.value
            ELSE /\ kind \notin aborted
                 /\ last.op = "index" =>
                       /\ kind \in DOMAIN last.value
                       /\ last.value[kind] = last.before[kind][last.index + 1]
                 /\ last.op = "update" =>
                       /\ last.index < Length(kind)
                       /\ Slot(kind, last.index) = last.result[kind]

\* update(1, f) on a table of length 1 has aborted the run and left the slot
\* as it was (Persistent).
C11_Witness ==
    /\ last.op = "update"
    /\ "checked" \in DOMAIN last
    /\ driven = {"Persistent"}
    /\ last.index = 1
    /\ Len(last.before["Persistent"]) = 1
    /\ "Persistent" \in aborted
    /\ Table("Persistent") = last.before["Persistent"]

\* The last three operations were push, start_snapshot, rollback_to of that
\* snapshot.
PushSnapshotRollback ==
    /\ RolledBack
    /\ last.after.op = "start_snapshot"
    /\ last.after.pushed

\* C12 as stated: push, start_snapshot, rollback_to of that snapshot restores
\* len() to the value it had before the push.
C12_RestoresPrePushLength ==
    PushSnapshotRollback =>
        \A kind \in driven : Length(kind) = last.after.lenBeforePush[kind]

\* C12, amended: push, start_snapshot, rollback_to of that snapshot leaves
\* len() at the value it had when the snapshot was taken, which is the
\* pre-push value plus one: the push is not undone.
C12_KeepsPushedSlot ==
    PushSnapshotRollback =>
        \A kind \in driven :
            /\ kind \notin aborted
            /\ Length(kind) = last.after.lenBeforePush[kind] + 1

\* push onto a table of length 1, snapshot, rollback: the length is 2
\* (Persistent).
C12_Witness ==
    /\ PushSnapshotRollback
    /\ driven = {"Persistent"}
    /\ last.after.lenBeforePush["Persistent"] = 1
    /\ Length("Persistent") = 2

\* C13: reserve(n) changes neither the length, nor a slot, nor the open
\* snapshots, in either store.
C13_ReserveNoEffect ==
    last.op = "reserve" =>
        /\ aborted = {}
        /\ inplace = last.before["InPlace"]
        /\ persistent = last.before["Persistent"]
        /\ ipSnaps = last.snapshots["InPlace"]
        /\ psSnaps = last.snapshots["Persistent"]

\* A reserve on a non-empty table with a snapshot open (Persistent).
C13_Witness ==
    /\ last.op = "reserve"
    /\ driven = {"Persistent"}
    /\ Length("Persistent") > 0
    /\ Len(psSnaps) > 0
    /\ persistent = last.before["Persistent"]

\* C14: values_since_snapshot(S) is the inclusive range from the length
\* captured by S to the current len(): it contains len() and is never empty.
C14_InclusiveRange ==
    last.op = "values_since_snapshot" =>
        \A kind \in driven :
            /\ last[kind].start = last.lenAtOpen[kind]
            /\ last[kind].end = last.lenNow[kind]
            /\ RangeContains(last[kind], last.lenNow[kind])
            /\ RangeElems(last[kind]) # {}

\* Nothing was pushed since the snapshot and the range is {len()} (InPlace).
C14_Witness ==
    /\ last.op = "values_since_snapshot"
    /\ driven = {"InPlace"}
    /\ last.lenAtOpen["InPlace"] = 1
    /\ last.lenNow["InPlace"] = 1
    /\ Length("InPlace") = 1
    /\ RangeElems(last["InPlace"]) = {1}

\* C17: update(i, f) with i < len() leaves slot i holding f(old value) and
\* changes neither len() nor any other slot, in both stores.
C17_UpdateOnlySlot ==
    [][last'.op = "update" =>
          \A kind \in driven :
              /\ kind \notin aborted'
              /\ Len(Table(kind)') = Len(Table(kind))
              /\ \A i \in 0..(Len(Table(kind)) - 1) :
                    Table(kind)'[i + 1] =
                        IF i = last'.index THEN last'.result[kind]
                        ELSE Table(kind)[i + 1]]_vars

\* Slot 1 of a two-slot table was updated and now differs from slot 0
\* (Persistent).
C17_Witness ==
    /\ last.op = "update"
    /\ driven = {"Persistent"}
    /\ last.index = 1
    /\ Length("Persistent") = 2
    /\ Slot("Persistent", 1) = last.result["Persistent"]
    /\ Slot("Persistent", 0) # Slot("Persistent", 1)

\* C18: start_snapshot changes no slot, and a snapshot's Measurable::len is
\* the table length at the moment it was taken, whatever is pushed later.
C18_SnapshotLength ==
    /\ last.op = "start_snapshot" =>
          \A kind \in driven :
              /\ kind \notin aborted
              /\ Table(kind) = last.before[kind]
    /\ \A k \in 1..Len(opened) :
          /\ "InPlace" \in driven =>
                Snapshot_len(ipSnaps[k]) = Len(opened[k]["InPlace"])
          /\ "Persistent" \in driven =>
                Persistent_len(psSnaps[k]) = Len(opened[k]["Persistent"])

\* A snapshot taken at length 1 still reports 1 after a later push grew the
\* table to 2 (Persistent).
C18_Witness ==
    /\ last.op = "push"
    /\ driven = {"Persistent"}
    /\ Len(psSnaps) > 0
    /\ Length("Persistent") = 2
    /\ Len(opened[Len(opened)]["Persistent"]) = 1
    /\ Persistent_len(psSnaps[Len(psSnaps)]) = 1

\* The same caller, recording the slots that survive a nested rollback and
\* the commit of the enclosing snapshot; the operations are those that write
\* the table or the stack of snapshots.
InitNested ==
    /\ InitStores
    /\ driven \in {{"InPlace"}, {"Persistent"}}
    /\ kept = {}

NextNested ==
    \/ \E value \in Val : Push(value)
    \/ \E index \in 0..(MaxLen - 1), op \in Ops : Update(index, op)
    \/ \E value \in ValueFns : ResetUnifications(value)
    \/ StartSnapshot
    \/ RollbackTo
    \/ Commit

SpecNested == InitNested /\ [][NextNested]_vars

\* C16: with S1 opened at length L, push A, S2 opened, push B, rollback_to(S2),
\* commit(S1), the table has length L + 1 and index(L) reads A; from then on
\* slot L exists after every operation, until a rollback to a snapshot that
\* was opened before S1.
C16_NestedSurvivor ==
    [][/\ (/\ last'.op = "commit"
           /\ Len(opened) > 0
           /\ \A kind \in driven : NestedRollbackDone(Len(opened), kind))
          => \A kind \in driven :
                LET L == Len(opened[Len(opened)][kind])
                IN  /\ kind \notin aborted'
                    /\ Length(kind)' = L + 1
                    /\ Table(kind)'[L + 1] = last.at[kind][L + 1]
                    /\ kept' = {[slot |-> L, older |-> Len(opened) - 1]}
       /\ \A r \in kept' : \A kind \in driven : r.slot < Length(kind)'
      ]_vars

\* After the sequence left slot 0 behind, a later snapshot was opened, a slot
\* pushed and the snapshot rolled back: slot 0 is still there (Persistent).
C16_Witness ==
    /\ kept = {[slot |-> 0, older |-> 0]}
    /\ driven = {"Persistent"}
    /\ RolledBack
    /\ Len(last.before["Persistent"]) = 2
    /\ Length("Persistent") = 1

\* Both stores side by side, driven by one sequence of operations.
InitPair ==
    /\ InitStores
    /\ driven = Stores
    /\ kept = Untracked

\* A rollback the caller may ask for when it kept away from the slots that
\* predate the snapshot: each of them holds the value it had when the
\* innermost snapshot was opened.
RollbackToUntouched ==
    /\ Len(opened) > 0
    /\ \A kind \in driven :
          \A i \in 1..Len(opened[Len(opened)][kind]) :
              /\ i <= Length(kind)
              /\ Table(kind)[i] = opened[Len(opened)][kind][i]
    /\ RollbackTo

NextPair ==
    \/ \E value \in Val : Push(value)
    \/ \E index \in 0..(MaxLen - 1), op \in Ops : Update(index, op)
    \/ \E value \in ValueFns : ResetUnifications(value)
    \/ \E n \in ReserveArgs : Reserve(n)
    \/ StartSnapshot
    \/ Commit
    \/ RollbackToUntouched

SpecPair == InitPair /\ [][NextPair]_vars

\* C15: on a last-in-first-out sequence that rolls back only snapshots whose
\* earlier slots were left alone, InPlace and Persistent have the same len()
\* and the same index(i) for every i after every step.
C15_SameObservations ==
    /\ aborted = {}
    /\ Length("InPlace") = Length("Persistent")
    /\ \A i \in 0..(Length("InPlace") - 1) :
          Slot("InPlace", i) = Slot("Persistent", i)

\* Both stores were rolled back right after an update and read the same
\* single slot; before the rollback they had two.
C15_Witness ==
    /\ driven = Stores
    /\ RolledBack
    /\ last.after.op = "update"
    /\ Len(last.before["InPlace"]) = 2
    /\ Len(last.before["Persistent"]) = 2
    /\ Length("InPlace") = 1
    /\ Length("Persistent") = 1
    /\ Slot("InPlace", 0) = Slot("Persistent", 0)

====
